---------------------------- MODULE Spec2Model ----------------------------
(***************************************************************************)
(* The five portfolio scripts of the repository as one state machine:      *)
(*   EW   equalWeight.py        batch fetch, equal-weight sizing           *)
(*   SM   momentumStrategy.py   one-year return, top N, sizing             *)
(*   HQM  momentumStrategy.py   four return percentiles, HQM Score         *)
(*   SV   valueStrategy.py      price-to-earnings, top N, sizing           *)
(*   RV   valueStrategy.py      five valuation percentiles, RV Score       *)
(* One action per notebook cell (or per iteration of a fetch loop).        *)
(*                                                                         *)
(* Numbers.  A float is a pair <<n, d>>: a reduced fraction when d > 0,    *)
(* NaN when <<0, 0>>, +inf / -inf when <<1, 0>> / <<-1, 0>>.  Rounding of  *)
(* binary floating point is not modelled.  A JSON null / None is held as   *)
(* NaN, which is what pandas makes of it in a numeric column.              *)
(***************************************************************************)
EXTENDS Integers, Sequences, FiniteSets, TLC

VARIABLES
    strategy,       \* which script section runs
    nStocks,        \* number of tickers in constituents.csv
    batch,          \* index of the next request of the running fetch loop
    affected,       \* tickers whose request failed or answered no fields
    df,             \* the DataFrame of the section, a sequence of rows
    universe,       \* the table as the fetch loop left it (history)
    ranked,         \* the table as the selection cell found it (history)
    portfolioSize,  \* what getPortfolioSize returned
    positionSize,   \* portfolioSize / len(df.index)
    rejects,        \* inputs getPortfolioSize has rejected so far
    pc,             \* the cell about to run
    err,            \* the exception that ended the run, or "none"
    frame           \* a call list(chunks(lst, n)) stepped on its own

vars == <<strategy, nStocks, batch, affected, df, universe, ranked,
          portfolioSize, positionSize, rejects, pc, err, frame>>

(***************************************************************************)
(* Bounds of the model.                                                    *)
(***************************************************************************)
\* Largest number of tickers in constituents.csv (it lists at least one).
MaxStocks == 3
\* The [:50] of the selection cells, scaled to the model's universes.
TopN == 2
\* The 100 tickers per batch request, scaled likewise.
ChunkSize == 2
\* Most inputs getPortfolioSize rejects in one call.
MaxRejects == 1
\* The [:10] of the per-symbol loop of equalWeight.py, scaled likewise.
FirstTickers == 2
\* Longest list and largest chunk size of a chunks call stepped on its own.
MaxLen == 4
MaxChunk == 3

(***************************************************************************)
(* Float arithmetic.                                                       *)
(***************************************************************************)
NaN == <<0, 0>>
Inf == <<1, 0>>
\* The 'N/A' string (or the 0 of equalWeight.py) a cell holds before it is
\* computed.
NA == <<0, -1>>

Abs(x) == IF x < 0 THEN -x ELSE x

Sign(x) == IF x < 0 THEN -1 ELSE IF x > 0 THEN 1 ELSE 0

RECURSIVE GCD(_, _)
GCD(a, b) == IF b = 0 THEN a ELSE GCD(b, a % b)

Norm(n, d) ==
    IF d = 0 THEN <<Sign(n), 0>>
    ELSE LET g == GCD(Abs(n), Abs(d))
         IN  <<(Sign(d) * n) \div g, Abs(d) \div g>>

Num(k) == <<k, 1>>

IsNaN(x) == x = NaN

IsFinite(x) == x[2] > 0

\* x < y, x <= y, x = y on floats: every comparison with NaN is false.
RLt(x, y) ==
    /\ ~IsNaN(x) /\ ~IsNaN(y) /\ x[2] >= 0 /\ y[2] >= 0
    /\ IF IsFinite(x) /\ IsFinite(y) THEN x[1] * y[2] < y[1] * x[2]
       ELSE IF IsFinite(x) THEN y[1] > 0
       ELSE IF IsFinite(y) THEN x[1] < 0
       ELSE x[1] < y[1]

REq(x, y) == ~IsNaN(x) /\ ~IsNaN(y) /\ x = y

RLe(x, y) == RLt(x, y) \/ REq(x, y)

RAdd(x, y) ==
    IF IsFinite(x) /\ IsFinite(y)
      THEN Norm(x[1] * y[2] + y[1] * x[2], x[2] * y[2])
    ELSE IF IsFinite(x) THEN y
    ELSE IF IsFinite(y) THEN x
    ELSE IF x = y THEN x ELSE NaN

\* x / y for y not zero (Python raises on a zero divisor before dividing).
RDiv(x, y) ==
    IF IsNaN(x) \/ IsNaN(y) THEN NaN
    ELSE IF IsFinite(x) /\ IsFinite(y) THEN Norm(x[1] * y[2], x[2] * y[1])
    ELSE IF IsFinite(y) THEN <<x[1] * Sign(y[1]), 0>>
    ELSE IF IsFinite(x) THEN Num(0)
    ELSE NaN

\* math.floor of a finite float.
Floor(x) == x[1] \div x[2]

RECURSIVE RSum(_)
RSum(s) == IF s = <<>> THEN Num(0) ELSE RAdd(Head(s), RSum(Tail(s)))

\* statistics.mean / Series.mean of a non-empty sequence of floats.
mean(s) == RDiv(RSum(s), Num(Len(s)))

Min(a, b) == IF a <= b THEN a ELSE b


(***************************************************************************)
(* The script sections and their metric columns.                          *)
(***************************************************************************)
Strategies == {"EW", "SM", "HQM", "SV", "RV"}

Composite == {"HQM", "RV"}

timePeriods == <<"One-Year", "Six-Month", "Three-Month", "One-Month">>

metrics == <<"Price-to-Earnings Ratio", "Price-to-Book Ratio",
             "Price-to-Sales Ratio", "EV/EBITDA", "EV/GP">>

\* Number of metric columns of a section's table.
NumMetrics(s) ==
    CASE s = "EW"  -> 0
      [] s = "SM"  -> 1
      [] s = "SV"  -> 1
      [] s = "HQM" -> Len(timePeriods)
      [] s = "RV"  -> Len(metrics)

MetricIdx(s) == 1 .. NumMetrics(s)

(***************************************************************************)
(* What the API may answer for one symbol: a few representative records    *)
(* per section (valid prices 1 and 2; a zero, a negative and a missing     *)
(* price; low, high, uneven and missing metrics).  None (JSON null) is NaN.*)
(* The market capitalisation equalWeight.py stores is read by no cell and  *)
(* is left out.                                                            *)
(***************************************************************************)
None == NaN

\* A record with no fields: len(data[i]) == 0.
Empty == [empty |-> TRUE]

IsEmpty(d) == "empty" \in DOMAIN d

Quote(p) == [latestPrice |-> p]

EWData == {Quote(p) : p \in {None, Num(-1), Num(0), Num(1), Num(2)}}

SMStats(y) == [year1ChangePercent |-> y]

SMData ==
    {Quote(Num(1)) @@ SMStats(Num(1)),
     Quote(Num(2)) @@ SMStats(Num(2)),
     Quote(Num(1)) @@ SMStats(None),
     Quote(Num(0)) @@ SMStats(Num(1)),
     Quote(Num(-1)) @@ SMStats(Num(2)),
     Quote(None) @@ SMStats(Num(1))}

SVStats(pe) == [peRatio |-> pe]

SVData ==
    {Quote(Num(1)) @@ SVStats(Num(1)),
     Quote(Num(2)) @@ SVStats(Num(2)),
     Quote(Num(1)) @@ SVStats(None),
     Quote(Num(1)) @@ SVStats(Num(0)),
     Quote(Num(2)) @@ SVStats(Num(-1)),
     Quote(Num(0)) @@ SVStats(Num(1)),
     Quote(Num(-1)) @@ SVStats(Num(2)),
     Quote(None) @@ SVStats(Num(1))}

HQMStats(y, m6, m3, m1) ==
    [year1ChangePercent |-> y, month6ChangePercent |-> m6,
     month3ChangePercent |-> m3, month1ChangePercent |-> m1]

HQMLow == HQMStats(Num(1), Num(1), Num(1), Num(1))

HQMHigh == HQMStats(Num(2), Num(2), Num(2), Num(2))

HQMData ==
    {Quote(Num(1)) @@ HQMLow,
     Quote(Num(2)) @@ HQMHigh,
     Quote(Num(1)) @@ HQMStats(None, Num(1), Num(1), Num(1)),
     Quote(Num(2)) @@ HQMStats(Num(1), Num(1), Num(1), Num(3)),
     Quote(Num(0)) @@ HQMLow,
     Quote(Num(-1)) @@ HQMHigh,
     Quote(None) @@ HQMLow}

RVStats(pe, pb, ps, ev, ebitda, gp) ==
    [peRatio |-> pe, priceToBook |-> pb, priceToSales |-> ps,
     enterpriseValue |-> ev, EBITDA |-> ebitda, grossProfit |-> gp]

\* Every ratio 1, every ratio 2.
RVLow == RVStats(Num(1), Num(1), Num(1), Num(2), Num(2), Num(2))

RVHigh == RVStats(Num(2), Num(2), Num(2), Num(4), Num(2), Num(2))

RVData ==
    {Quote(Num(1)) @@ RVLow,
     Quote(Num(2)) @@ RVHigh,
     Quote(Num(1)) @@ RVStats(Num(3), Num(1), Num(1), Num(2), Num(2), None),
     Quote(Num(2)) @@ RVStats(Num(1), Num(1), Num(1), None, Num(2), Num(2)),
     Quote(Num(0)) @@ RVLow,
     Quote(Num(-1)) @@ RVHigh,
     Quote(None) @@ RVLow}

ApiData(s) ==
    {Empty} \cup
    CASE s = "EW"  -> EWData
      [] s = "SM"  -> SMData
      [] s = "SV"  -> SVData
      [] s = "HQM" -> HQMData
      [] s = "RV"  -> RVData

(***************************************************************************)
(* constituents.csv and its batches.                                       *)
(***************************************************************************)
stocks == [i \in 1 .. nStocks |-> i]

\* list(chunks(lst, n)): lst[i:i + n] for i in range(0, len(lst), n).
chunks(lst, n) ==
    [g \in 1 .. ((Len(lst) + n - 1) \div n) |->
        SubSeq(lst, (g - 1) * n + 1, Min(g * n, Len(lst)))]

symbol_groups == chunks(stocks, ChunkSize)

(***************************************************************************)
(* Rows.  raw: the metric columns; pct: their percentile columns; score:   *)
(* HQM Score / RV Score; shares: Number of Shares to Buy.                  *)
(***************************************************************************)
\* The metric columns the fetch loop computes from one API record.
RawOf(s, d) ==
    CASE s = "EW"  -> <<>>
      [] s = "SM"  -> <<d.year1ChangePercent>>
      [] s = "SV"  -> <<d.peRatio>>
      [] s = "HQM" -> <<d.year1ChangePercent, d.month6ChangePercent,
                        d.month3ChangePercent, d.month1ChangePercent>>
      [] s = "RV"  ->
           LET evebitda == IF d.enterpriseValue # None /\ d.EBITDA # None
                             THEN RDiv(d.enterpriseValue, d.EBITDA) ELSE NaN
               evgp == IF d.grossProfit # None /\ d.enterpriseValue # None
                         THEN RDiv(d.enterpriseValue, d.grossProfit) ELSE NaN
           IN  <<d.peRatio, d.priceToBook, d.priceToSales, evebitda, evgp>>

\* Number of Shares to Buy of a new row: 0 in equalWeight.py, 'N/A' elsewhere.
InitialShares(s) == IF s = "EW" THEN Num(0) ELSE NA

NewRow(s, ticker, d) ==
    [ticker |-> ticker, price |-> d.latestPrice, raw |-> RawOf(s, d),
     pct |-> [m \in MetricIdx(s) |-> NA], score |-> NA,
     shares |-> InitialShares(s)]

\* The rows the inner loop of one batch appends: RV skips an empty record.
RECURSIVE BatchRows(_, _, _)
BatchRows(s, symbols, data) ==
    IF symbols = <<>> THEN <<>>
    ELSE LET rest == BatchRows(s, Tail(symbols), Tail(data))
         IN  IF IsEmpty(Head(data)) THEN rest
             ELSE <<NewRow(s, Head(symbols), Head(data))>> \o rest

HasEmpty(data) == \E i \in 1 .. Len(data) : IsEmpty(data[i])

\* The cell after the fetch loop.
AfterFetch(s) ==
    CASE s = "EW"  -> "input"
      [] s = "SM"  -> "select"
      [] s = "SV"  -> "select"
      [] s = "HQM" -> "percentile"
      [] s = "RV"  -> "impute"

(***************************************************************************)
(* Init and the fetch loops.                                              *)
(***************************************************************************)
\* No chunks call is being stepped: the sections take their symbol groups
\* from chunks in one piece.
NoCall == [lst |-> <<>>, n |-> 1, i |-> 0, out |-> <<>>, done |-> TRUE]

\* The first cell of a section that requests data: equalWeight.py runs its
\* per-symbol loop before the batch loop.
FirstCell(s) == IF s = "EW" THEN "quotes" ELSE "fetch"

Init ==
    /\ strategy \in Strategies
    /\ nStocks \in 1 .. MaxStocks
    /\ batch = 1
    /\ affected = {}
    /\ df = <<>>
    /\ universe = <<>>
    /\ ranked = <<>>
    /\ portfolioSize = NA
    /\ positionSize = NA
    /\ rejects = 0
    /\ pc = FirstCell(strategy)
    /\ err = "none"
    /\ frame = NoCall

Crash(e) ==
    /\ pc' = "crashed"
    /\ err' = e

\* stocks['Ticker'][:10]
FirstStocks == SubSeq(stocks, 1, Min(FirstTickers, Len(stocks)))

\* The tickers of a batch whose record has no fields.
EmptyOf(symbols, data) == {symbols[i] : i \in {j \in 1 .. Len(data) : IsEmpty(data[j])}}

\* One iteration of the per-symbol loop whose request answers 200: the
\* record is read and appended (a record without fields has no latestPrice).
QuoteFetch ==
    /\ pc = "quotes"
    /\ batch <= Len(FirstStocks)
    /\ \E d \in ApiData("EW") :
         IF IsEmpty(d)
           THEN /\ Crash("KeyError")
                /\ affected' = affected \cup {FirstStocks[batch]}
                /\ UNCHANGED <<batch, df>>
           ELSE /\ df' = Append(df, NewRow("EW", FirstStocks[batch], d))
                /\ batch' = batch + 1
                /\ UNCHANGED <<affected, pc, err>>
    /\ UNCHANGED <<frame, strategy, nStocks, universe, ranked, portfolioSize,
                   positionSize, rejects>>

\* One iteration whose request answers with another status: continue.
QuoteFail ==
    /\ pc = "quotes"
    /\ batch <= Len(FirstStocks)
    /\ affected' = affected \cup {FirstStocks[batch]}
    /\ batch' = batch + 1
    /\ UNCHANGED <<frame, strategy, nStocks, df, universe, ranked, portfolioSize,
                   positionSize, rejects, pc, err>>

\* The per-symbol loop is through; the batch cell starts from an empty
\* final_df and does not read what the loop collected.
QuotesDone ==
    /\ pc = "quotes"
    /\ batch > Len(FirstStocks)
    /\ df' = <<>>
    /\ batch' = 1
    /\ affected' = {}
    /\ pc' = "fetch"
    /\ UNCHANGED <<frame, strategy, nStocks, universe, ranked, portfolioSize,
                   positionSize, rejects, err>>

\* One iteration of a batch loop whose requests answer 200.
FetchBatch ==
    /\ pc = "fetch"
    /\ batch <= Len(symbol_groups)
    /\ \E data \in [1 .. Len(symbol_groups[batch]) -> ApiData(strategy)] :
         /\ affected' = affected \cup EmptyOf(symbol_groups[batch], data)
         /\ IF strategy # "RV" /\ HasEmpty(data)
              THEN \* data[i]['latestPrice'] of a record without fields
                   /\ Crash("KeyError")
                   /\ UNCHANGED <<batch, df>>
              ELSE /\ df' = df \o BatchRows(strategy, symbol_groups[batch], data)
                   /\ batch' = batch + 1
                   /\ UNCHANGED <<pc, err>>
    /\ UNCHANGED <<frame, strategy, nStocks, universe, ranked, portfolioSize,
                   positionSize, rejects>>

\* One iteration whose request answers with another status than 200: only
\* the simple value loop looks at the status (and leaves the loop); the
\* others index the error body as if it were the list of records.
FetchFail ==
    /\ pc = "fetch"
    /\ batch <= Len(symbol_groups)
    /\ affected' = affected \cup {symbol_groups[batch][i] :
                                    i \in 1 .. Len(symbol_groups[batch])}
    /\ IF strategy = "SV"
         THEN /\ pc' = AfterFetch(strategy)
              /\ universe' = df
              /\ UNCHANGED err
         ELSE /\ \E e \in {"JSONDecodeError", "KeyError"} : Crash(e)
              /\ UNCHANGED universe
    /\ UNCHANGED <<frame, strategy, nStocks, batch, df, ranked, portfolioSize,
                   positionSize, rejects>>

\* The loop has gone through every symbol string.
FetchDone ==
    /\ pc = "fetch"
    /\ batch > Len(symbol_groups)
    /\ pc' = AfterFetch(strategy)
    /\ universe' = df
    /\ UNCHANGED <<frame, strategy, nStocks, batch, affected, df, ranked,
                   portfolioSize, positionSize, rejects, err>>

(***************************************************************************)
(* Scoring.                                                                *)
(***************************************************************************)
Column(t, m) == [i \in 1 .. Len(t) |-> t[i].raw[m]]

NonNaN(col) == SelectSeq(col, LAMBDA v : ~IsNaN(v))

\* count(a < score) and count(a <= score).
CountLt(a, score) == Cardinality({i \in 1 .. Len(a) : RLt(a[i], score)})

CountLe(a, score) == Cardinality({i \in 1 .. Len(a) : RLe(a[i], score)})

\* percentileofscore with kind='weak': the share of values <= score.
percentileofscore_weak(a, score) ==
    LET n == Len(a)
        right == CountLe(a, score)
    IN  IF IsNaN(score) \/ n = 0 \/ (\E i \in 1 .. n : IsNaN(a[i])) THEN NaN
        ELSE Norm(right * 100, n)

\* percentileofscore with kind='strict': the share of values < score.
percentileofscore_strict(a, score) ==
    LET n == Len(a)
        left == CountLt(a, score)
    IN  IF IsNaN(score) \/ n = 0 \/ (\E i \in 1 .. n : IsNaN(a[i])) THEN NaN
        ELSE Norm(left * 100, n)

\* The rank counted from the top: the share of values >= score.
percentileofscore_above(a, score) ==
    LET n == Len(a)
        left == CountLt(a, score)
    IN  IF IsNaN(score) \/ n = 0 \/ (\E i \in 1 .. n : IsNaN(a[i])) THEN NaN
        ELSE Norm((n - left) * 100, n)

\* scipy.stats.percentileofscore(a, score) with its defaults, kind='rank'
\* and nan_policy='propagate': NaN for a NaN score, for a NaN among a and
\* for an empty a; otherwise the mean of the strict and the weak rank, in
\* percent.
percentileofscore(a, score) ==
    LET n == Len(a)
        left == CountLt(a, score)
        right == CountLe(a, score)
        plus1 == IF left < right THEN 1 ELSE 0
    IN  IF IsNaN(score) \/ n = 0 \/ (\E i \in 1 .. n : IsNaN(a[i])) THEN NaN
        ELSE Norm((left + right + plus1) * 50, n)

\* The values a metric column is ranked against: momentumStrategy.py drops
\* the NaN of the column, valueStrategy.py hands the column over as it is.
Population(s, t, m) ==
    IF s = "HQM" THEN NonNaN(Column(t, m)) ELSE Column(t, m)

Percentile(s, t, i, m) ==
    RDiv(percentileofscore(Population(s, t, m), t[i].raw[m]), Num(100))

\* Series.mean(): the mean of the values that are not NaN, NaN if none.
ColumnMean(col) ==
    IF NonNaN(col) = <<>> THEN NaN ELSE mean(NonNaN(col))

\* Series.fillna(value): a NaN value fills nothing.
fillna(v, value) == IF IsNaN(v) THEN value ELSE v

Imputed(t) ==
    [i \in 1 .. Len(t) |->
        [t[i] EXCEPT !.raw =
            [m \in DOMAIN t[i].raw |-> fillna(t[i].raw[m], ColumnMean(Column(t, m)))]]]

\* The "mean of the 4 percentile scores" of the comment above the RV Score
\* cell: the fifth metric left out.
FirstFourPercentiles(row) ==
    [m \in DOMAIN row.pct \cap 1 .. 4 |-> row.pct[m]]

\* The percentiles the score loop averages, in the order of the loop.
ScoredPercentiles(row) == [m \in DOMAIN row.pct |-> row.pct[m]]

CompositeScore(row) == mean(ScoredPercentiles(row))

\* RV only: fill the missing values of the five metric columns.
ImputeCell ==
    /\ pc = "impute"
    /\ df' = Imputed(df)
    /\ pc' = "percentile"
    /\ UNCHANGED <<frame, strategy, nStocks, batch, affected, universe, ranked, portfolioSize,
                   positionSize, rejects, err>>

PercentileCell ==
    /\ pc = "percentile"
    /\ df' = [i \in 1 .. Len(df) |->
                [df[i] EXCEPT !.pct =
                    [m \in MetricIdx(strategy) |-> Percentile(strategy, df, i, m)]]]
    /\ pc' = "score"
    /\ UNCHANGED <<frame, strategy, nStocks, batch, affected, universe, ranked, portfolioSize,
                   positionSize, rejects, err>>

ScoreCell ==
    /\ pc = "score"
    /\ df' = [i \in 1 .. Len(df) |-> [df[i] EXCEPT !.score = CompositeScore(df[i])]]
    /\ pc' = "select"
    /\ UNCHANGED <<frame, strategy, nStocks, batch, affected, universe, ranked, portfolioSize,
                   positionSize, rejects, err>>

(***************************************************************************)
(* Selection.                                                              *)
(***************************************************************************)
\* The column a section sorts on.
SortKey(s, row) == IF s \in Composite THEN row.score ELSE row.raw[1]

\* Whether a section sorts ascending.
Ascending(s) == s = "SV"

\* k1 may stand before k2 after sort_values: NaN last, otherwise by value.
InOrder(asc, k1, k2) ==
    IF IsNaN(k2) THEN TRUE
    ELSE IF IsNaN(k1) THEN FALSE
    ELSE IF asc THEN RLe(k1, k2) ELSE RLe(k2, k1)

Perms(n) ==
    {p \in [1 .. n -> 1 .. n] : \A i, j \in 1 .. n : i # j => p[i] # p[j]}

\* DataFrame.sort_values with its default kind (quicksort, not stable): any
\* arrangement of the rows that is in order; rows with equal keys (and rows
\* with a NaN key) may come out in any order.
sort_values(s, t) ==
    {[i \in 1 .. Len(t) |-> t[p[i]]] : p \in
        {q \in Perms(Len(t)) :
            \A i, j \in 1 .. Len(t) :
                i < j => InOrder(Ascending(s), SortKey(s, t[q[i]]), SortKey(s, t[q[j]]))}}

\* t[:n + 1]
TruncateOneMore(t, n) == SubSeq(t, 1, Min(n + 1, Len(t)))

\* t[:n]
Truncate(t, n) == SubSeq(t, 1, Min(n, Len(t)))

\* The filter with >= 0 in the place of > 0.
FilteredNonNegative(s, t) ==
    IF s = "SV" THEN SelectSeq(t, LAMBDA row : RLe(Num(0), row.raw[1])) ELSE t

\* dataframe[dataframe['Price-to-Earnings Ratio'] > 0], simple value only.
Filtered(s, t) ==
    IF s = "SV" THEN SelectSeq(t, LAMBDA row : RLt(Num(0), row.raw[1])) ELSE t

SelectCell ==
    /\ pc = "select"
    /\ \E sorted \in sort_values(strategy, df) :
         df' = Truncate(Filtered(strategy, sorted), TopN)
    /\ ranked' = df
    /\ pc' = "input"
    /\ UNCHANGED <<frame, strategy, nStocks, batch, affected, universe, portfolioSize,
                   positionSize, rejects, err>>

(***************************************************************************)
(* getPortfolioSize and the sizing cells.                                  *)
(***************************************************************************)
InputTexts == {"abc", "0", "-5", "nan", "inf", "7"}

\* float(val): NA stands for the ValueError of a text that is no number.
ParseFloat(text) ==
    CASE text = "0"   -> Num(0)
      [] text = "-5"  -> Num(-5)
      [] text = "7"   -> Num(7)
      [] text = "nan" -> NaN
      [] text = "inf" -> Inf
      [] OTHER        -> NA

\* The test that raises CheapPortfolioException.
TooSmall(val) == RLe(val, Num(0))

\* One pass of the while loop with a text that is printed back as rejected.
InputRejected ==
    /\ pc = "input"
    /\ rejects < MaxRejects
    /\ \E text \in InputTexts :
         LET val == ParseFloat(text) IN val = NA \/ TooSmall(val)
    /\ rejects' = rejects + 1
    /\ UNCHANGED <<frame, strategy, nStocks, batch, affected, df, universe, ranked,
                   portfolioSize, positionSize, pc, err>>

\* The pass that returns.
InputAccepted ==
    /\ pc = "input"
    /\ \E text \in InputTexts :
         LET val == ParseFloat(text)
         IN  /\ val # NA
             /\ ~TooSmall(val)
             /\ portfolioSize' = val
    /\ rejects' = 0
    /\ pc' = "possize"
    /\ UNCHANGED <<frame, strategy, nStocks, batch, affected, df, universe, ranked,
                   positionSize, err>>

\* The portfolio split over the table as fetched, not as selected.
PositionSizeOfFetched(pv, t) == RDiv(pv, Num(Len(universe)))

\* portfolioSize / len(t.index), for a table with rows.
PositionSize(pv, t) == RDiv(pv, Num(Len(t)))

\* positionSize = portfolioSize / len(df.index)
PositionSizeCell ==
    /\ pc = "possize"
    /\ IF Len(df) = 0
         THEN /\ Crash("ZeroDivisionError")
              /\ UNCHANGED positionSize
         ELSE /\ positionSize' = PositionSize(portfolioSize, df)
              /\ pc' = "shares"
              /\ UNCHANGED err
    /\ UNCHANGED <<frame, strategy, nStocks, batch, affected, df, universe, ranked,
                   portfolioSize, rejects>>

\* The exceptions math.floor(positionSize / price) can end in.  A missing
\* price is None in an object column (TypeError) or NaN in a float column
\* (ValueError of floor); a zero price raises ZeroDivisionError as a Python
\* number and gives inf or NaN as a numpy float, which floor refuses.
Faults(ps, price) ==
    IF IsNaN(price) THEN {"TypeError", "ValueError"}
    ELSE IF price = Num(0)
      THEN {"ZeroDivisionError", IF IsNaN(ps) THEN "ValueError" ELSE "OverflowError"}
    ELSE IF IsNaN(ps) THEN {"ValueError"}
    ELSE IF ~IsFinite(ps) THEN {"OverflowError"}
    ELSE {}

\* math.ceil in the place of math.floor.
SharesOfCeil(ps, price) ==
    LET q == RDiv(ps, price) IN -Floor(<<-q[1], q[2]>>)

SharesOf(ps, price) == Floor(RDiv(ps, price))

\* The first row the shares loop fails on, Len(t) + 1 if none.
FirstFault(t, ps) ==
    LET bad == {i \in 1 .. Len(t) : Faults(ps, t[i].price) # {}}
    IN  IF bad = {} THEN Len(t) + 1
        ELSE CHOOSE i \in bad : \A j \in bad : i <= j

SharesCell ==
    /\ pc = "shares"
    /\ LET f == FirstFault(df, positionSize)
       IN  /\ df' = [i \in 1 .. Len(df) |->
                       IF i < f
                         THEN [df[i] EXCEPT !.shares =
                                 Num(SharesOf(positionSize, df[i].price))]
                         ELSE df[i]]
           /\ IF f <= Len(df)
                THEN \E e \in Faults(positionSize, df[f].price) : Crash(e)
                ELSE /\ pc' = "done"
                     /\ UNCHANGED err
    /\ UNCHANGED <<frame, strategy, nStocks, batch, affected, universe, ranked, portfolioSize,
                   positionSize, rejects>>

Next ==
    \/ QuoteFetch
    \/ QuoteFail
    \/ QuotesDone
    \/ FetchBatch
    \/ FetchFail
    \/ FetchDone
    \/ ImputeCell
    \/ PercentileCell
    \/ ScoreCell
    \/ SelectCell
    \/ InputRejected
    \/ InputAccepted
    \/ PositionSizeCell
    \/ SharesCell

Spec == Init /\ [][Next]_vars

(***************************************************************************)
(* chunks(lst, n) stepped as the generator runs: i is the loop variable of *)
(* range(0, len(lst), n), out the list that list(...) collects.            *)
(***************************************************************************)
\* lst[a:b + 1]
SliceOneMore(lst, a, b) == SubSeq(lst, a + 1, Min(b + 1, Len(lst)))

\* lst[a:b] for 0 <= a <= b.
Slice(lst, a, b) == SubSeq(lst, a + 1, Min(b, Len(lst)))

\* The lists of tickers handed to chunks, the empty one and lists with a
\* ticker more than once included.
ChunkLists == UNION {[1 .. len -> 1 .. MaxStocks] : len \in 0 .. MaxLen}

ChunksInit ==
    /\ \E lst \in ChunkLists, n \in 1 .. MaxChunk :
          frame = [lst |-> lst, n |-> n, i |-> 0, out |-> <<>>, done |-> FALSE]
    /\ strategy = "EW"
    /\ nStocks = 1
    /\ batch = 1
    /\ affected = {}
    /\ df = <<>>
    /\ universe = <<>>
    /\ ranked = <<>>
    /\ portfolioSize = NA
    /\ positionSize = NA
    /\ rejects = 0
    /\ pc = "chunks"
    /\ err = "none"

\* One pass of the for loop: yield lst[i:i + n], collected by list(...).
ChunkYield ==
    /\ ~frame.done
    /\ frame.i < Len(frame.lst)
    /\ frame' = [frame EXCEPT
                    !.out = Append(@, Slice(frame.lst, frame.i, frame.i + frame.n)),
                    !.i = @ + frame.n]
    /\ UNCHANGED <<strategy, nStocks, batch, affected, df, universe, ranked,
                   portfolioSize, positionSize, rejects, pc, err>>

\* range(0, len(lst), n) is exhausted: the generator returns.
ChunkReturn ==
    /\ ~frame.done
    /\ frame.i >= Len(frame.lst)
    /\ frame' = [frame EXCEPT !.done = TRUE]
    /\ UNCHANGED <<strategy, nStocks, batch, affected, df, universe, ranked,
                   portfolioSize, positionSize, rejects, pc, err>>

ChunksNext ==
    \/ ChunkYield
    \/ ChunkReturn

ChunksSpec == ChunksInit /\ [][ChunksNext]_vars


(***************************************************************************)
(* Properties.                                                             *)
(***************************************************************************)
\* The percentile columns are filled and the rows still stand in fetch order.
Scored == strategy \in Composite /\ pc \in {"score", "select"}

\* Number of rows of t whose metric m is below / equal to / not above v.
Below(t, m, v) == Cardinality({j \in 1 .. Len(t) : RLt(t[j].raw[m], v)})

Tied(t, m, v) == Cardinality({j \in 1 .. Len(t) : REq(t[j].raw[m], v)})

Present(t, m) == Cardinality({j \in 1 .. Len(t) : ~IsNaN(t[j].raw[m])})

C2_ImputedBeforePercentile ==
    Scored =>
        \A m \in MetricIdx(strategy) :
            Present(universe, m) > 0 =>
                \A i \in 1 .. Len(df) :
                    /\ df[i].raw[m] =
                          IF IsNaN(universe[i].raw[m])
                            THEN mean(NonNaN(Column(universe, m)))
                            ELSE universe[i].raw[m]
                    /\ IsFinite(df[i].pct[m])

\* The score columns are filled and the rows still stand in fetch order.
Ranked == strategy \in Composite /\ pc = "select"

RECURSIVE DenProduct(_)
DenProduct(ps) == IF ps = <<>> THEN 1 ELSE Head(ps)[2] * DenProduct(Tail(ps))

RECURSIVE NumSum(_, _)
NumSum(ps, D) ==
    IF ps = <<>> THEN 0
    ELSE Head(ps)[1] * (D \div Head(ps)[2]) + NumSum(Tail(ps), D)

AllFinite(ps) == \A m \in 1 .. Len(ps) : IsFinite(ps[m])

Selected ==
    strategy \in Composite /\ pc \in {"input", "possize", "shares", "done"}

SelectedTickers == {df[i].ticker : i \in 1 .. Len(df)}

\* C4: the Selection of a composite strategy is ordered by composite score,
\* best first, and no record left out has a better score than a selected one.
C4_SelectionOrdered ==
    Selected =>
        /\ \A i, j \in 1 .. Len(df) : i < j => RLe(df[j].score, df[i].score)
        /\ \A i \in 1 .. Len(df) : \A j \in 1 .. Len(ranked) :
              ranked[j].ticker \notin SelectedTickers
                  => RLe(ranked[j].score, df[i].score)

\* Record x of the Universe is strictly below record y on every metric.
Cheaper(x, y) == \A m \in MetricIdx(strategy) : RLt(x.raw[m], y.raw[m])

Position(ticker) == CHOOSE i \in 1 .. Len(df) : df[i].ticker = ticker

\* C5: the robust value selection favours low ratios: when x is strictly
\* lower than y on all five valuation metrics, y is never selected while x
\* is left out, and x never stands after y in the Selection.
C5_FavoursLowRatios ==
    (strategy = "RV" /\ pc \in {"input", "possize", "shares", "done"}) =>
        \A i, j \in 1 .. Len(universe) :
            Cheaper(universe[i], universe[j]) =>
                LET x == universe[i].ticker
                    y == universe[j].ticker
                IN  /\ y \in SelectedTickers => x \in SelectedTickers
                    /\ (x \in SelectedTickers /\ y \in SelectedTickers)
                          => Position(x) < Position(y)


\* s = floor((pv / k) / price), stated without dividing.
IsFloorOfShare(s, pv, k, price) ==
    LET lhs == pv[1] * price[2]
        unit == pv[2] * k * price[1]
    IN  IF price[1] > 0
          THEN s * unit <= lhs /\ lhs < (s + 1) * unit
          ELSE s * unit >= lhs /\ lhs > (s + 1) * unit

\* The shares loop has run (to its end or to an exception).
SizingRan == positionSize # NA /\ pc \in {"done", "crashed"}

\* Row i has been given its share count by the loop.
Sized(i) == pc = "done" \/ (strategy # "EW" /\ df[i].shares # NA)

\* C6: in every strategy each selected record gets floor((portfolio value /
\* k) / price) shares, k being the number of records of the final Selection
\* when it is sized, and the target amount portfolio value / k is the same
\* for every record.
C6_SharesFormula ==
    SizingRan =>
        LET k == Len(df)
        IN  /\ k > 0
            /\ positionSize = NaN <=> portfolioSize = NaN
            /\ positionSize[1] * k * portfolioSize[2]
                  = portfolioSize[1] * positionSize[2]
            /\ \A i \in 1 .. k :
                  Sized(i) =>
                      /\ IsFinite(portfolioSize)
                      /\ df[i].shares[2] = 1
                      /\ IsFloorOfShare(df[i].shares[1], portfolioSize, k,
                                        df[i].price)

\* A Selection cut to N records has been sized, and two of its records, at
\* different prices, got different numbers of shares.
C6_Witness ==
    /\ pc = "done"
    /\ strategy \in Composite
    /\ Len(df) = TopN
    /\ Len(universe) > TopN
    /\ \E i, j \in 1 .. Len(df) :
          /\ RLt(Num(0), df[i].price)
          /\ RLt(df[i].price, df[j].price)
          /\ df[j].shares[1] > 0
          /\ df[i].shares[1] > df[j].shares[1]

\* C7: the Selection of a composite strategy has min(N, |Universe|) records:
\* all of them when the Universe has fewer than N, never more than N, and
\* the selection raises nothing.
C7_SelectionSize ==
    Selected =>
        /\ Len(df) = Min(TopN, Len(universe))
        /\ Len(df) <= TopN
        /\ pc = "input" => err = "none"

\* A Universe of fewer than N records has been selected whole.
C7_Witness ==
    /\ Selected
    /\ 0 < Len(universe)
    /\ Len(universe) < TopN
    /\ SelectedTickers = {universe[i].ticker : i \in 1 .. Len(universe)}

\* C8: every share count the sizing step writes is a non-negative integer,
\* whatever prices the fetch step let through.
C8_SharesNonNegative ==
    \A i \in 1 .. Len(df) :
        df[i].shares # NA => df[i].shares[2] = 1 /\ df[i].shares[1] >= 0

\* A price that is missing, zero or negative.
BadPrice(price) == ~RLt(Num(0), price)

\* C9: sizing checks the prices before dividing: with a missing, zero or
\* negative price in the Selection the run ends in InvalidPriceError, not in
\* a generic arithmetic fault, and no share count is written for the record.
C9_InvalidPriceError ==
    (SizingRan /\ \E i \in 1 .. Len(df) : BadPrice(df[i].price)) =>
        /\ pc = "crashed"
        /\ err = "InvalidPriceError"
        /\ \A i \in 1 .. Len(df) :
              BadPrice(df[i].price) => df[i].shares = InitialShares(strategy)

\* C10: sizing an empty Selection ends in ZeroUniverseError; the division
\* portfolio value / |Selection| is not evaluated.
C10_ZeroUniverseError ==
    (portfolioSize # NA /\ Len(df) = 0 /\ pc # "possize") =>
        (pc = "crashed" /\ err = "ZeroUniverseError")

\* The ranking step of a composite strategy has been reached with records.
RankingRan ==
    /\ strategy \in Composite
    /\ Len(universe) > 0
    /\ pc \notin {"fetch", "impute", "percentile"}

\* C11: when every record of the Universe has some metric missing, the
\* composite ranking ends in InsufficientDataError: no record gets a NaN or
\* substituted percentile or score, and no Selection is produced.
C11_InsufficientDataError ==
    (RankingRan /\ \E m \in MetricIdx(strategy) : Present(universe, m) = 0) =>
        /\ pc = "crashed"
        /\ err = "InsufficientDataError"
        /\ ranked = <<>>
        /\ \A i \in 1 .. Len(df) :
              /\ df[i].score = NA
              /\ \A m \in MetricIdx(strategy) : df[i].pct[m] = NA

Tickers(t) == {t[i].ticker : i \in 1 .. Len(t)}

\* The tickers the running fetch loop has asked for so far.
Requested ==
    IF pc = "quotes"
      THEN {FirstStocks[i] : i \in 1 .. (batch - 1)}
      ELSE UNION {{symbol_groups[g][i] : i \in 1 .. Len(symbol_groups[g])} :
                     g \in 1 .. (batch - 1)}

\* C12: a request that fails (status other than 200) or a record without
\* fields costs exactly the symbols it concerns: during a fetch loop the
\* table holds every other symbol requested so far, the finished Universe
\* holds every symbol of the list but those, and the run does not end in the
\* parsing of a failed or empty answer.
C12_FailureIsolated ==
    /\ pc \in {"quotes", "fetch"} => Tickers(df) = Requested \ affected
    /\ pc \notin {"quotes", "fetch", "crashed"} =>
          Tickers(universe) = {stocks[i] : i \in 1 .. Len(stocks)} \ affected
    /\ affected # {} => err \notin {"JSONDecodeError", "KeyError"}

\* C13: getPortfolioSize only returns a finite number above zero, whatever
\* texts are entered ('nan' and 'inf' included).
C13_PortfolioValuePositive ==
    portfolioSize # NA =>
        IsFinite(portfolioSize) /\ RLt(Num(0), portfolioSize)

\* Record i of the Universe has a value for metric m.
HasValue(i, m) == ~IsNaN(universe[i].raw[m])

\* C14: for every metric with a value somewhere in a non-empty Universe and
\* every record with a value for it, the percentile is above 0 and at most
\* 1, also when records tie at the minimum or at the maximum.
C14_PercentileRange ==
    Scored =>
        \A i \in 1 .. Len(df) : \A m \in MetricIdx(strategy) :
            HasValue(i, m) =>
                /\ IsFinite(df[i].pct[m])
                /\ RLt(Num(0), df[i].pct[m])
                /\ RLe(df[i].pct[m], Num(1))

\* Two records tie at the minimum of a metric, below a third record.
C14_Witness ==
    /\ Scored
    /\ \E m \in MetricIdx(strategy) : \E i, j, k \in 1 .. Len(df) :
          /\ i # j
          /\ HasValue(i, m) /\ HasValue(j, m) /\ HasValue(k, m)
          /\ REq(universe[i].raw[m], universe[j].raw[m])
          /\ RLt(universe[i].raw[m], universe[k].raw[m])
          /\ \A l \in 1 .. Len(df) :
                HasValue(l, m) => RLe(universe[i].raw[m], universe[l].raw[m])
          /\ RLt(Num(0), df[i].pct[m])
          /\ RLt(df[i].pct[m], df[k].pct[m])

\* C15: the percentile is monotone in the raw value: of two records with a
\* value for a metric, the one with the lower or equal value has the lower
\* or equal percentile, and equal values have equal percentiles.
C15_PercentileMonotone ==
    Scored =>
        \A m \in MetricIdx(strategy) : \A i, j \in 1 .. Len(df) :
            (HasValue(i, m) /\ HasValue(j, m)) =>
                /\ RLe(universe[i].raw[m], universe[j].raw[m])
                      => RLe(df[i].pct[m], df[j].pct[m])
                /\ REq(universe[i].raw[m], universe[j].raw[m])
                      => df[i].pct[m] = df[j].pct[m]

\* On one metric a record lies strictly below another, in value and in
\* percentile, and some record of the Universe has no value for the metric.
C15_Witness ==
    /\ Scored
    /\ \E m \in MetricIdx(strategy) : \E i, j \in 1 .. Len(df) :
          /\ HasValue(i, m) /\ HasValue(j, m)
          /\ RLt(universe[i].raw[m], universe[j].raw[m])
          /\ RLt(df[i].pct[m], df[j].pct[m])
          /\ \E k \in 1 .. Len(df) : ~HasValue(k, m)

\* The selection cell of a section that sorts has run.
Sorted == strategy # "EW" /\ pc \in {"input", "possize", "shares", "done"}

\* C16: the sort of the selection is stable: records with equal sort key
\* (composite score, or raw metric in the single-metric strategies) stand in
\* the Selection in fetch order, and of the records tied across the top-N
\* boundary the earlier fetched are kept.  Tickers are numbered in fetch
\* order.
C16_StableSort ==
    Sorted =>
        /\ \A i, j \in 1 .. Len(df) :
              (i < j /\ REq(SortKey(strategy, df[i]), SortKey(strategy, df[j])))
                  => df[i].ticker < df[j].ticker
        /\ \A i \in 1 .. Len(df) : \A j \in 1 .. Len(ranked) :
              (/\ ranked[j].ticker \notin Tickers(df)
               /\ REq(SortKey(strategy, ranked[j]), SortKey(strategy, df[i])))
                  => df[i].ticker < ranked[j].ticker

C18_RetryLoop ==
    [][pc = "input" =>
          /\ pc' \in {"input", "possize"}
          /\ err' = "none"
          /\ pc' = "possize" =>
                /\ \E text \in InputTexts : portfolioSize' = ParseFloat(text)
                /\ portfolioSize' # NA
                /\ RLt(Num(0), portfolioSize')
          /\ pc' = "input" =>
                /\ rejects' = rejects + 1
                /\ portfolioSize' = portfolioSize]_vars

\* shares * price of a row, and the sum over a table.
Cost(row) == Norm(row.shares[1] * row.price[1], row.price[2])

TotalCost(t) == RSum([i \in 1 .. Len(t) |-> Cost(t[i])])

\* target - cost of a row.
Unspent(target, row) ==
    LET c == Cost(row) IN RAdd(target, <<-c[1], c[2]>>)

\* The shares loop has ended, the portfolio value is above zero and every
\* selected price is above zero.
SizedAtValidPrices ==
    /\ pc = "done"
    /\ RLt(Num(0), portfolioSize)
    /\ \A i \in 1 .. Len(df) : RLt(Num(0), df[i].price)

\* C19: with every selected price and the portfolio value V above zero the
\* allocation does not overspend: the sum of shares * price is at most V,
\* and for every record V / k - shares * price is at least 0 and below the
\* price.
C19_NoOverspend ==
    SizedAtValidPrices =>
        LET target == RDiv(portfolioSize, Num(Len(df)))
        IN  /\ IsFinite(portfolioSize)
            /\ RLe(TotalCost(df), portfolioSize)
            /\ \A i \in 1 .. Len(df) :
                  /\ RLe(Num(0), Unspent(target, df[i]))
                  /\ RLt(Unspent(target, df[i]), df[i].price)

\* A Selection of several records has been sized, shares were bought and
\* cash is left over.
C19_Witness ==
    /\ SizedAtValidPrices
    /\ Len(df) > 1
    /\ \E i \in 1 .. Len(df) :
          /\ df[i].shares[1] > 0
          /\ RLt(Num(0), Unspent(RDiv(portfolioSize, Num(Len(df))), df[i]))
    /\ RLt(TotalCost(df), portfolioSize)

\* The selection cell of the simple value strategy has run.
SimpleValueSelected ==
    strategy = "SV" /\ pc \in {"input", "possize", "shares", "done"}

PositivePE(t) == {i \in 1 .. Len(t) : RLt(Num(0), t[i].raw[1])}

\* C20: the simple value strategy selects the records with the smallest
\* price-to-earnings ratios above zero: no record with a zero, negative or
\* missing ratio, ascending order, min(N, records with a ratio above zero)
\* records, and no record left out with a ratio above zero and below that of
\* a selected one.
C20_SimpleValueSelection ==
    SimpleValueSelected =>
        /\ Tickers(df) \subseteq {universe[i].ticker : i \in PositivePE(universe)}
        /\ \A i \in 1 .. Len(df) : \E j \in 1 .. Len(universe) :
              /\ universe[j].ticker = df[i].ticker
              /\ universe[j].raw = df[i].raw
        /\ \A i, j \in 1 .. Len(df) :
              i < j => /\ RLe(df[i].raw[1], df[j].raw[1])
                       /\ df[i].ticker # df[j].ticker
        /\ Len(df) = Min(TopN, Cardinality(PositivePE(universe)))
        /\ \A j \in PositivePE(universe) :
              universe[j].ticker \notin Tickers(df) =>
                  \A i \in 1 .. Len(df) : RLe(df[i].raw[1], universe[j].raw[1])

\* Of three fetched records the first has no usable ratio and is left out,
\* and the other two are selected in the reverse of their fetch order.
C20_Witness ==
    /\ SimpleValueSelected
    /\ Len(universe) > TopN
    /\ Len(df) = TopN
    /\ \E j \in 1 .. Len(universe) :
          j \notin PositivePE(universe) /\ universe[j].ticker \notin Tickers(df)
    /\ \E i, j \in 1 .. Len(df) :
          /\ i < j
          /\ RLt(df[i].raw[1], df[j].raw[1])
          /\ df[i].ticker > df[j].ticker

RECURSIVE Concat(_)
Concat(ss) == IF ss = <<>> THEN <<>> ELSE Head(ss) \o Concat(Tail(ss))

\* C21: for n >= 1, list(chunks(lst, n)) cuts lst into consecutive slices:
\* the chunks joined in order are lst (nothing lost, doubled or moved), every
\* chunk has between 1 and n elements and every chunk but the last exactly
\* n, there are ceil(len(lst) / n) chunks, none for an empty lst, and every
\* position of lst lies in exactly one chunk.
C21_ChunksPartition ==
    (pc = "chunks" /\ frame.done) =>
        LET lst == frame.lst
            n == frame.n
            out == frame.out
        IN  /\ Concat(out) = lst
            /\ \A g \in 1 .. Len(out) :
                  /\ 1 <= Len(out[g])
                  /\ Len(out[g]) <= n
                  /\ g < Len(out) => Len(out[g]) = n
            /\ Len(out) * n >= Len(lst)
            /\ (Len(out) - 1) * n < Len(lst) \/ Len(out) = 0
            /\ lst = <<>> <=> out = <<>>
            /\ \A p \in 1 .. Len(lst) :
                  Cardinality({<<g, k>> \in (1 .. Len(out)) \X (1 .. n) :
                                  k <= Len(out[g]) /\ (g - 1) * n + k = p}) = 1
            /\ out = chunks(lst, n)

\* A list whose length is no multiple of n, with a ticker in it twice, has
\* been cut into several chunks, the last one short.
C21_Witness ==
    /\ pc = "chunks"
    /\ frame.done
    /\ Len(frame.out) > 1
    /\ Len(frame.out[Len(frame.out)]) < frame.n
    /\ \E p, q \in 1 .. Len(frame.lst) : p # q /\ frame.lst[p] = frame.lst[q]

=============================================================================
